---- MODULE Spec2Model ----
(***************************************************************************)
(* McpService (src/src/service.ts): the multi-server connection lifecycle  *)
(* manager.  One TLA+ step is one synchronous run of JavaScript: an event  *)
(* (a public call, a timer callback, a transport event) or the             *)
(* continuation of an async method after one of its awaits, up to the next *)
(* await or the end.  ConnectionState and McpConnection objects live in    *)
(* two heaps (sobj, cobj) so that a closure holding an object can be told  *)
(* from the map entry registered under the same server name.               *)
(***************************************************************************)
EXTENDS Integers, Sequences, FiniteSets, TLC

VARIABLES
    connections,       \* this.connections: server name -> connection object id, 0 = no entry
    connectionStates,  \* this.connectionStates: server name -> state object id, 0 = no entry
    sobj,              \* heap of ConnectionState objects
    cobj,              \* heap of McpConnection objects (server record, client, transport)
    procs,             \* suspended async calls: slot -> continuation
    ping,              \* per name: the sendPing promise in flight, if any
    calls,             \* number of public calls made so far
    streak,            \* per name: automatic reconnect attempts that failed, counted where observed (history)
    deleted,           \* per name: a teardown completed and nothing re-created it since (history)
    lastDesired,       \* <<d>> when the last public call was a completed reconciliation of d
    mcpProvider,       \* this.mcpProvider.data.mcp: server name -> what the snapshot says of it
    inflight,          \* per name: requests of callTool / readResource sent and not yet answered
    outcome,           \* how the last callTool / readResource ended
    warnings,          \* per name: deprecation warnings logged for the server
    stopped            \* "no", "stopping" while stop() runs, "stopped" once it has returned

vars == <<connections, connectionStates, sobj, cobj, procs, ping, calls, streak,
          deleted, lastDesired, mcpProvider, inflight, outcome, warnings, stopped>>

(*************************** bounds of the model ***************************)
MaxS == 3          \* ConnectionState objects alive at once
MaxC == 3          \* McpConnection objects alive at once
MaxProcs == 2      \* async calls suspended at once
MaxOverlap == 3    \* the same, where the overlap of three calls is looked at
MaxCalls == 2      \* public calls in one behaviour
MaxConcurrentCalls == 1  \* public calls suspended at once
MaxStreak == 6     \* failed automatic reconnects in a row that are followed
MaxPingCount == 4  \* largest consecutivePingFailures value that still pings
MaxInFlight == 1   \* requests of one kind in flight to one server
MaxWarnings == 2   \* deprecation warnings counted per server

(*************************** program constants *****************************)
MAX_RECONNECT_ATTEMPTS == 5
BACKOFF_MULTIPLIER == 2
INITIAL_RETRY_DELAY == 2000
FailuresBeforeDisconnect == 3

InitNames == {"a"}
TwoNames == {"a", "b"}
NameOrder == <<"a", "b">>
ServerNames == DOMAIN connections

(*************************** server configurations *************************)
\* A config object is its list of <<key, value>> pairs in insertion order.
CfgStdio == << <<"type", "stdio">>, <<"command", "run">> >>
CfgHttp == << <<"type", "http">>, <<"url", "u1">> >>
CfgNoCommand == << <<"type", "stdio">> >>
CfgEmptyCommand == << <<"type", "stdio">>, <<"command", "">> >>
CfgHttpNoUrl == << <<"type", "http">> >>
\* The fields and values of CfgStdio, written in the other order
CfgStdioReordered == << <<"command", "run">>, <<"type", "stdio">> >>
\* The deprecated alias of the streaming transport
CfgSse == << <<"type", "sse">>, <<"url", "u1">> >>
CfgSseNoUrl == << <<"type", "sse">> >>
Configs == {CfgStdio, CfgHttp, CfgNoCommand}

HasKey(cfg, k) == \E i \in 1..Len(cfg) : cfg[i][1] = k
Field(cfg, k) == cfg[CHOOSE i \in 1..Len(cfg) : cfg[i][1] = k][2]

RECURSIVE Stringify(_)
\* JSON.stringify: the keys and values in the object's own key order
Stringify(cfg) ==
    IF cfg = <<>> THEN <<>> ELSE <<cfg[1][1], cfg[1][2]>> \o Stringify(Tail(cfg))

RECURSIVE Parse(_)
\* JSON.parse of a string Stringify wrote
Parse(str) ==
    IF str = <<>> THEN <<>> ELSE << <<str[1], str[2]>> >> \o Parse(SubSeq(str, 3, Len(str)))

\* buildHttpClientTransport, lines 302-305, is reached and logs the
\* deprecation warning (lines 140-143 send every type but "stdio" to it)
WarnsDeprecated(cfg) == Field(cfg, "type") = "sse"

\* The builders as they would be if buildHttpClientTransport did not look
\* at the url
BuildOkUrlUnchecked(cfg) ==
    IF Field(cfg, "type") = "stdio"
    THEN HasKey(cfg, "command") /\ Field(cfg, "command") # ""
    ELSE TRUE

\* The Error a builder throws, lines 281-283 and 298-300: its message and
\* the server name the message ends with
BuildError(n, cfg) ==
    IF Field(cfg, "type") = "stdio"
    THEN <<"Missing command for stdio MCP server", n>>
    ELSE <<"Missing URL for HTTP MCP server", n>>

\* The error client.connect rejects with, line 155: the text is the SDK's
ConnectError == <<"handshake failed">>

\* buildStdioClientTransport / buildHttpClientTransport return a transport
BuildOk(cfg) ==
    IF Field(cfg, "type") = "stdio"
    THEN HasKey(cfg, "command") /\ Field(cfg, "command") # ""
    ELSE HasKey(cfg, "url") /\ Field(cfg, "url") # ""

(*************************** heap objects **********************************)
NoState == [name |-> "", status |-> "free", reconnectAttempts |-> 0,
            consecutivePingFailures |-> 0, pingInterval |-> FALSE,
            reconnectTimeout |-> FALSE, delay |-> 0, lastConnected |-> FALSE]

NewState(n) == [name |-> n, status |-> "connecting", reconnectAttempts |-> 0,
                consecutivePingFailures |-> 0, pingInterval |-> FALSE,
                reconnectTimeout |-> FALSE, delay |-> 0, lastConnected |-> FALSE]

\* A capability list of a Server record (tools, resources, resourceTemplates)
\* is told by where it came from: "undef" while the field is not set, "own"
\* when it was requested over the connection the record belongs to, "other"
\* when it was requested over another connection registered under the name,
\* "empty" when no connection was registered (the fetch returns []).
\* The error text of a Server record is the list of the messages appended
\* to it, <<>> for the empty or missing text.
NoConn == [name |-> "", config |-> <<>>, status |-> "free", open |-> FALSE,
           tcloses |-> 0, ccloses |-> 0, evt |-> FALSE, errd |-> FALSE, gone |-> FALSE,
           tools |-> "undef", resources |-> "undef", resourceTemplates |-> "undef",
           disabled |-> FALSE, error |-> <<>>]

NewConn(n, cfg) == [name |-> n, config |-> Stringify(cfg), status |-> "connecting",
                    open |-> TRUE, tcloses |-> 0, ccloses |-> 0, evt |-> FALSE,
                    errd |-> FALSE, gone |-> FALSE,
                    tools |-> "undef", resources |-> "undef", resourceTemplates |-> "undef",
                    disabled |-> FALSE, error |-> <<>>]

Idle == [kind |-> "idle", pc |-> "", name |-> "", cfg |-> <<>>, st |-> 0, conn |-> 0,
         lvl |-> "", str |-> <<>>, desired |-> <<>>, todo |-> <<>>, phase |-> "", same |-> FALSE,
         q |-> 0, tools |-> "", resources |-> "", resourceTemplates |-> "", ok |-> {},
         failed |-> {}, err |-> <<>>]

Min(a, b) == IF a < b THEN a ELSE b

\* The manager's mutable world, threaded through one synchronous run.
World == [so |-> sobj, co |-> cobj, cm |-> connections, sm |-> connectionStates]

RECURSIVE Pow(_, _)
Pow(b, k) == IF k = 0 THEN 1 ELSE b * Pow(b, k - 1)

ReconnectDelay(attempts) == INITIAL_RETRY_DELAY * Pow(BACKOFF_MULTIPLIER, attempts)

\* clearInterval(state.pingInterval); clearTimeout(state.reconnectTimeout)
ClearTimers(o) == [o EXCEPT !.pingInterval = FALSE, !.reconnectTimeout = FALSE, !.delay = 0]

\* handleDisconnection(name, error)
HandleDisconnection(W, n) ==
    LET s == W.sm[n] IN
    IF s = 0 THEN W
    ELSE LET o == [ClearTimers(W.so[s]) EXCEPT !.status = "disconnected"] IN
         IF o.reconnectAttempts >= MAX_RECONNECT_ATTEMPTS
         THEN [W EXCEPT !.so[s] = o]
         ELSE [W EXCEPT !.so[s] = [o EXCEPT !.reconnectTimeout = TRUE,
                                            !.delay = ReconnectDelay(o.reconnectAttempts)]]

\* handlePingFailure as it would be with the threshold missed by one
\* (> for >=)
HandlePingFailureLate(W, n) ==
    LET s == W.sm[n] IN
    IF s = 0 THEN W
    ELSE LET W1 == [W EXCEPT !.so[s].consecutivePingFailures = @ + 1] IN
         IF W1.so[s].consecutivePingFailures > FailuresBeforeDisconnect
         THEN HandleDisconnection(W1, n)
         ELSE W1

\* handlePingFailure(name, error)
HandlePingFailure(W, n) ==
    LET s == W.sm[n] IN
    IF s = 0 THEN W
    ELSE LET W1 == [W EXCEPT !.so[s].consecutivePingFailures = @ + 1] IN
         IF W1.so[s].consecutivePingFailures >= FailuresBeforeDisconnect
         THEN HandleDisconnection(W1, n)
         ELSE W1

\* startPingMonitoring(name), DEFAULT_PING_CONFIG.enabled = true
StartPingMonitoring(W, n) ==
    LET s == W.sm[n] IN
    IF s = 0 THEN W ELSE [W EXCEPT !.so[s].pingInterval = TRUE]

\* transport.close() as called by deleteConnection: the transport stops
\* being open; unless the server had closed it already, its onclose is
\* delivered later.
TransportCloseCall(c) ==
    [c EXCEPT !.open = FALSE, !.tcloses = Min(@ + 1, 2), !.evt = (@ \/ (c.open /\ ~c.gone))]

\* client.close() as called by deleteConnection
ClientCloseCall(c) == [c EXCEPT !.ccloses = Min(@ + 1, 2)]

\* deleteConnection, lines 266-273, as it would be if it cleared the timers
\* of every ConnectionState and not only those of its server
DeleteTailEveryTimer(W, n) ==
    LET W1 == [W EXCEPT !.cm[n] = 0, !.so = [s \in DOMAIN W.so |-> ClearTimers(W.so[s])]]
    IN IF W.sm[n] = 0 THEN W1 ELSE [W1 EXCEPT !.sm[n] = 0]

\* deleteConnection, lines 266-273: after the closes
DeleteTail(W, n) ==
    LET W1 == [W EXCEPT !.cm[n] = 0]
        s == W.sm[n]
    IN IF s = 0 THEN W1
       ELSE [W1 EXCEPT !.so[s] = ClearTimers(@), !.sm[n] = 0]

\* deleteConnection, lines 268-273 alone: no connection was found
DeleteNoConnection(W, n) ==
    LET s == W.sm[n] IN
    IF s = 0 THEN W ELSE [W EXCEPT !.so[s] = ClearTimers(@), !.sm[n] = 0]

\* deleteConnection(name) up to its first await (or its end)
CallDelete(W, p, n) ==
    LET c == W.cm[n] IN
    IF c # 0
    THEN [w |-> [W EXCEPT !.co[c] = TransportCloseCall(@)],
          p |-> [p EXCEPT !.pc = "d_tclose", !.name = n, !.conn = c]]
    ELSE [w |-> DeleteNoConnection(W, n),
          p |-> [p EXCEPT !.pc = "d_ret", !.name = n, !.conn = 0]]

\* The fetch as it would be if the list came from whichever connection
\* object of the name is still around, an earlier one when there is one
FetchOverAnyGeneration(W, n, c) ==
    IF W.cm[n] = 0 THEN "empty"
    ELSE IF \E k \in DOMAIN W.co : k # c /\ W.co[k].name = n THEN "other" ELSE "own"

\* fetchToolsList / fetchResourcesList / fetchResourceTemplatesList up to
\* the await: getServerConnection(name) picks the connection registered at
\* that moment, and the list is requested over it; c is the connection of
\* the caller
FetchOver(W, n, c) ==
    IF W.cm[n] = 0 THEN "empty" ELSE IF W.cm[n] = c THEN "own" ELSE "other"

\* initializeConnection(name, config) up to its first await: line 128
CallInit(W, p, n, cfg) == CallDelete(W, [p EXCEPT !.lvl = "init", !.cfg = cfg, !.st = 0], n)

(*************************** bookkeeping ***********************************)
\* An object is held while a map entry or a suspended call refers to it, and
\* stays alive while one of its timers or its transport can still call back.
StateHeld(W, ps, s) ==
    \/ \E n \in DOMAIN W.sm : W.sm[n] = s
    \/ \E i \in DOMAIN ps : ps[i].st = s

StateReachable(W, ps, s) ==
    \/ StateHeld(W, ps, s)
    \/ W.so[s].pingInterval
    \/ W.so[s].reconnectTimeout

ConnHeld(W, ps, c) ==
    \/ \E n \in DOMAIN W.cm : W.cm[n] = c
    \/ \E i \in DOMAIN ps : ps[i].conn = c

ConnReachable(W, ps, c) ==
    \/ ConnHeld(W, ps, c)
    \/ W.co[c].open /\ ~W.co[c].gone
    \/ W.co[c].evt

\* Of an object only its callbacks can reach, only what they read is kept.
KeepState(W, ps, s) ==
    IF StateHeld(W, ps, s) THEN W.so[s]
    ELSE [NoState EXCEPT !.name = W.so[s].name, !.status = "unreferenced",
                         !.pingInterval = W.so[s].pingInterval,
                         !.reconnectTimeout = W.so[s].reconnectTimeout]

KeepConn(W, ps, c) ==
    IF ConnHeld(W, ps, c) THEN W.co[c]
    ELSE [NoConn EXCEPT !.name = W.co[c].name, !.status = "unreferenced",
                        !.open = W.co[c].open, !.evt = W.co[c].evt,
                        !.errd = W.co[c].errd \/ W.co[c].gone, !.gone = W.co[c].gone]

\* The heaps are kept compact, in order of creation.
NewIndex(K, x) == IF x = 0 THEN 0 ELSE Cardinality({k \in K : k <= x})
Nth(K, j) == CHOOSE k \in K : Cardinality({m \in K : m <= k}) = j

\* Awaits of a promise this code settles itself: one microtask tick
TickPcs == {"d_ret", "i_build", "i_ret", "i_threw"}

PcOrder == <<"d_tclose", "d_cclose", "d_ret", "i_build", "i_connect", "i_fetch",
             "i_resources", "i_templates", "i_ret", "i_threw", "">>
KindOrder == <<"reconcile", "restart", "delete", "stop", "timer", "idle">>
IndexOf(seq, x) == CHOOSE k \in 1..Len(seq) : seq[k] = x
Rank(p) == IndexOf(PcOrder, p.pc) * Len(KindOrder) + IndexOf(KindOrder, p.kind)

RECURSIVE InsertProc(_, _)
InsertProc(p, sorted) ==
    IF sorted = <<>> THEN <<p>>
    ELSE IF Rank(p) <= Rank(Head(sorted)) THEN <<p>> \o sorted
         ELSE <<Head(sorted)>> \o InsertProc(p, Tail(sorted))

RECURSIVE SortProcs(_)
\* The suspended calls have no order of their own: keep them in one.
SortProcs(ps) == IF ps = <<>> THEN <<>> ELSE InsertProc(Head(ps), SortProcs(Tail(ps)))

\* The microtask queue: a continuation that waits for nothing but its turn
\* has its place in p.q (1 runs next, 0 is not queued).  The continuation
\* that ran leaves the queue, and what it awaits next without any I/O joins
\* the queue at the end.
Requeue(old, new) ==
    LET changed == {i \in DOMAIN new : new[i] # old[i]}
        ranHead == \E i \in changed : old[i].q = 1
        others == Cardinality({j \in DOMAIN new : j \notin changed /\ old[j].q > 0})
    IN [i \in DOMAIN new |->
          IF i \in changed
          THEN [new[i] EXCEPT !.q = IF new[i].pc \in TickPcs THEN others + 1 ELSE 0]
          ELSE IF ranHead /\ new[i].q > 0 THEN [new[i] EXCEPT !.q = @ - 1]
          ELSE new[i]]

Commit(Wn, pn) ==
    \E W \in {Wn} : \E ps \in {SortProcs(Requeue(procs, pn))} :
    \E KS \in {{s \in DOMAIN W.so : StateReachable(W, ps, s)}} :
    \E KC \in {{c \in DOMAIN W.co : ConnReachable(W, ps, c)}} :
    /\ connections' = [n \in DOMAIN W.cm |-> NewIndex(KC, W.cm[n])]
    /\ connectionStates' = [n \in DOMAIN W.sm |-> NewIndex(KS, W.sm[n])]
    /\ sobj' = [j \in DOMAIN W.so |->
                  IF j <= Cardinality(KS) THEN KeepState(W, ps, Nth(KS, j)) ELSE NoState]
    /\ cobj' = [j \in DOMAIN W.co |->
                  IF j <= Cardinality(KC) THEN KeepConn(W, ps, Nth(KC, j)) ELSE NoConn]
    /\ procs' = [i \in DOMAIN ps |->
                  [ps[i] EXCEPT !.st = NewIndex(KS, @), !.conn = NewIndex(KC, @)]]

HasFreeState == \E s \in DOMAIN sobj : sobj[s] = NoState
FreeState == CHOOSE s \in DOMAIN sobj : sobj[s] = NoState /\ \A t \in 1..(s - 1) : sobj[t] # NoState
HasFreeConn == \E c \in DOMAIN cobj : cobj[c] = NoConn
FreeConn == CHOOSE c \in DOMAIN cobj : cobj[c] = NoConn /\ \A t \in 1..(c - 1) : cobj[t] # NoConn
HasFreeSlot == \E i \in DOMAIN procs : procs[i] = Idle
FreeSlot == CHOOSE i \in DOMAIN procs : procs[i] = Idle /\ \A j \in 1..(i - 1) : procs[j] # Idle

\* No microtask is queued: the event loop may run a timer, an I/O event or
\* a call of the host
QueueEmpty == \A i \in DOMAIN procs : procs[i].q = 0

\* The host may make another public call
CanCall ==
    /\ QueueEmpty
    /\ calls < MaxCalls
    /\ HasFreeSlot
    /\ Cardinality({i \in DOMAIN procs : procs[i].kind \in {"reconcile", "restart", "delete"}})
          < MaxConcurrentCalls

KeysOf(d) == SelectSeq(NameOrder, LAMBDA n : n \in DOMAIN d)

(*************************** provider snapshot *****************************)
\* getServers(): the names whose connection is stored and whose Server
\* record is not disabled
GetServers(W) == {n \in DOMAIN W.cm : W.cm[n] # 0 /\ ~W.co[W.cm[n]].disabled}

\* buildMcpProviderData fills the table of a server from the list when the
\* list is set and not empty: a list that is not set leaves the same empty
\* table as an empty list
ListedAs(l) == IF l \in {"undef", "empty"} THEN "empty" ELSE l

\* buildMcpProviderData(servers).data.mcp: status, tools and resources of
\* every server, copied at the time of the call
BuildMcpProviderData(W) ==
    [n \in GetServers(W) |-> [status |-> W.co[W.cm[n]].status,
                              tools |-> ListedAs(W.co[W.cm[n]].tools),
                              resources |-> ListedAs(W.co[W.cm[n]].resources)]]

\* The initial value of the field mcpProvider
EmptyProvider == [n \in {} |-> [status |-> "", tools |-> "empty", resources |-> "empty"]]

\* initializeMcpServers, lines 74-75: when the updateServerConnections it
\* awaits has returned (call p has nothing left to do after the run r), the
\* snapshot is built from the connections of that moment
ProviderAfter(p, r) ==
    IF p.kind = "reconcile" /\ r.p = Idle THEN BuildMcpProviderData(r.w) ELSE mcpProvider

(*************************** updateServerConnections ***********************)
RECURSIVE ReconcileLoop(_, _)
\* The two loops of updateServerConnections from the entry p.todo is at, up
\* to the next await; p.phase tells the loop.
ReconcileLoop(W, p) ==
    IF p.phase = "del"
    THEN IF p.todo = <<>>
         THEN ReconcileLoop(W, [p EXCEPT !.phase = "upd", !.todo = KeysOf(p.desired)])
         ELSE CallDelete(W, [p EXCEPT !.todo = Tail(@), !.lvl = "op"],
                         Head(p.todo))
    ELSE IF p.todo = <<>>
         THEN [w |-> W, p |-> Idle]
         ELSE LET n == Head(p.todo)
                  cfg == p.desired[n]
                  q == [p EXCEPT !.todo = Tail(@)]
              IN IF W.cm[n] = 0
                 THEN CallInit(W, q, n, cfg)
                 ELSE IF Stringify(cfg) # W.co[W.cm[n]].config
                      THEN CallDelete(W, [q EXCEPT !.lvl = "op", !.cfg = cfg], n)
                      ELSE ReconcileLoop(W, q)

DesiredMaps == UNION {[D -> Configs] : D \in SUBSET InitNames}

\* The configured servers at construction.  CfgStdio and CfgHttp are treated
\* alike by every line of the service, so one of them stands for a valid
\* configuration here.
StartupMaps == UNION {[D -> {CfgStdio, CfgNoCommand}] : D \in SUBSET InitNames}

\* The host changes the configuration file: the same server again, its
\* fields listed in another order, or another transport
ReorderedMaps == UNION {[D -> {CfgStdio, CfgStdioReordered, CfgHttp}] : D \in SUBSET InitNames}

\* The same with two servers configured
StartupMapsTwo == UNION {[D -> {CfgStdio, CfgNoCommand}] : D \in SUBSET TwoNames}

\* updateServerConnections(serverConfigs), lines 91-125, to its first await
UpdateServerConnections(d) ==
    /\ CanCall
    /\ LET current == SelectSeq(NameOrder, LAMBDA n : /\ n \in ServerNames
                                                       /\ connections[n] # 0
                                                       /\ n \notin DOMAIN d)
           p0 == [Idle EXCEPT !.kind = "reconcile", !.desired = d, !.phase = "del",
                              !.todo = current, !.same = (lastDesired = <<d>>)]
       IN \E r \in {ReconcileLoop(World, p0)} :
          /\ Commit(r.w, [procs EXCEPT ![FreeSlot] = r.p])
          /\ lastDesired' = IF r.p = Idle THEN <<d>> ELSE <<>>
          /\ mcpProvider' = ProviderAfter(p0, r)
          /\ deleted' = [n \in ServerNames |->
                          IF r.p.lvl = "op" /\ r.p.phase = "del" /\ r.p.pc = "d_ret" /\ r.p.name = n
                          THEN TRUE ELSE deleted[n]]
    /\ calls' = calls + 1
    /\ UNCHANGED <<ping, streak, inflight, outcome, warnings, stopped>>

\* initializeMcpServers, lines 66-82: the constructor reconciles against
\* the configured servers
InitializeMcpServers(d) == calls = 0 /\ UpdateServerConnections(d)

\* A later reconciliation pass
Reconcile(d) == calls > 0 /\ UpdateServerConnections(d)

\* restartConnection(serverName), lines 433-441, to its first await
Restart(n) ==
    /\ CanCall
    /\ connections[n] # 0
    /\ LET c == connections[n]
           W0 == [World EXCEPT !.co[c].status = "connecting", !.co[c].error = <<>>]
           p0 == [Idle EXCEPT !.kind = "restart", !.lvl = "op", !.str = cobj[c].config]
       IN \E r \in {CallDelete(W0, p0, n)} : Commit(r.w, [procs EXCEPT ![FreeSlot] = r.p])
    /\ calls' = calls + 1
    /\ lastDesired' = <<>>
    /\ UNCHANGED <<ping, streak, deleted, mcpProvider, inflight, outcome, warnings, stopped>>

\* deleteConnection(name) called from outside, to its first await
Delete(n) ==
    /\ CanCall
    /\ \E r \in {CallDelete(World, [Idle EXCEPT !.kind = "delete", !.lvl = "op"], n)} :
          /\ Commit(r.w, [procs EXCEPT ![FreeSlot] = r.p])
          /\ deleted' = [deleted EXCEPT ![n] = IF r.p.pc = "d_ret" THEN TRUE ELSE @]
    /\ calls' = calls + 1
    /\ lastDesired' = <<>>
    /\ UNCHANGED <<ping, streak, mcpProvider, inflight, outcome, warnings, stopped>>

(*************************** stop ******************************************)
\* stop(), lines 58-63: the connection map is cleared, the timers of the
\* registered states are cleared, the state map is cleared
StopTail(W) ==
    [W EXCEPT !.cm = [n \in DOMAIN W.cm |-> 0],
              !.so = [s \in DOMAIN W.so |->
                        IF \E n \in DOMAIN W.sm : W.sm[n] = s
                        THEN ClearTimers(W.so[s]) ELSE W.so[s]],
              !.sm = [n \in DOMAIN W.sm |-> 0]]

\* stop(), lines 55-63, from the head of its loop to the next await or to
\* its end.  The loop iterates the live map: deleteConnection removes the
\* entry it was called for, and an entry stored again meanwhile comes later
\* in the iteration, so the loop ends when the map holds no entry.
StopLoop(W, p) ==
    IF \E n \in DOMAIN W.cm : W.cm[n] # 0
    THEN CallDelete(W, [p EXCEPT !.lvl = "op"],
                    Head(SelectSeq(NameOrder, LAMBDA n : n \in DOMAIN W.cm /\ W.cm[n] # 0)))
    ELSE [w |-> StopTail(W), p |-> Idle]

\* stop() called by the host, to its first await or its end
Stop ==
    /\ QueueEmpty
    /\ HasFreeSlot
    /\ calls > 0
    /\ stopped = "no"
    /\ \E r \in {StopLoop(World, [Idle EXCEPT !.kind = "stop"])} :
          /\ Commit(r.w, [procs EXCEPT ![FreeSlot] = r.p])
          /\ stopped' = IF r.p = Idle THEN "stopped" ELSE "stopping"
    /\ UNCHANGED <<ping, calls, streak, deleted, lastDesired, mcpProvider, inflight, outcome,
                   warnings>>

\* line 56 done: stop() resumes at the head of its loop
StopResume(i) ==
    /\ procs[i].pc = "d_ret"
    /\ procs[i].q = 1
    /\ procs[i].kind = "stop"
    /\ \E r \in {StopLoop(World, procs[i])} :
          /\ Commit(r.w, [procs EXCEPT ![i] = r.p])
          /\ stopped' = IF r.p = Idle THEN "stopped" ELSE stopped
    /\ UNCHANGED <<ping, calls, streak, deleted, lastDesired, mcpProvider, inflight, outcome,
                   warnings>>

(*************************** deleteConnection ******************************)
\* line 258 resolved: await connection.client.close()
DeleteTransportClosed(i) ==
    /\ procs[i].pc = "d_tclose"
    /\ Commit([World EXCEPT !.co[procs[i].conn] = ClientCloseCall(@)],
              [procs EXCEPT ![i].pc = "d_cclose"])
    /\ UNCHANGED <<ping, calls, streak, deleted, lastDesired, mcpProvider, inflight, outcome, warnings, stopped>>

\* A teardown for its own sake: the public deleteConnection, or line 96
IsTeardown(p) == p.lvl = "op" /\ (p.kind = "delete" \/ (p.kind = "reconcile" /\ p.phase = "del"))

\* line 259 resolved: lines 266-273, and the promise resolves
DeleteClientClosed(i) ==
    /\ procs[i].pc = "d_cclose"
    /\ Commit(DeleteTail(World, procs[i].name),
              [procs EXCEPT ![i].pc = "d_ret", ![i].conn = 0])
    /\ deleted' = [deleted EXCEPT ![procs[i].name] = IF IsTeardown(procs[i]) THEN TRUE ELSE @]
    /\ UNCHANGED <<ping, calls, streak, lastDesired, mcpProvider, inflight, outcome, warnings, stopped>>

NoOtherCall(i) == \A j \in DOMAIN procs : j # i => procs[j].kind \in {"idle", "timer"}

\* The caller of deleteConnection resumes: line 96, 114 or 441 done
DeleteReturn(i) ==
    /\ procs[i].pc = "d_ret"
    /\ procs[i].q = 1
    /\ procs[i].lvl = "op"
    /\ procs[i].kind # "stop"
    /\ \E p \in {procs[i]} :
       \E r \in {IF p.kind = "delete" THEN [w |-> World, p |-> Idle]
                 ELSE IF p.kind = "restart" THEN CallInit(World, p, p.name, Parse(p.str))
                 ELSE IF p.phase = "del" THEN ReconcileLoop(World, p)
                 ELSE CallInit(World, p, p.name, p.cfg)} :
          /\ Commit(r.w, [procs EXCEPT ![i] = r.p])
          /\ mcpProvider' = ProviderAfter(p, r)
          /\ lastDesired' = IF p.kind = "reconcile" /\ r.p = Idle /\ NoOtherCall(i)
                            THEN <<p.desired>> ELSE lastDesired
          /\ deleted' = [n \in ServerNames |->
                          IF r.p.lvl = "op" /\ r.p.phase = "del" /\ r.p.pc = "d_ret" /\ r.p.name = n
                          THEN TRUE ELSE deleted[n]]
    /\ UNCHANGED <<ping, calls, streak, inflight, outcome, warnings, stopped>>

(*************************** initializeConnection **************************)
\* line 128 done: lines 129-143, up to the await of the transport builder
InitStart(i) ==
    /\ procs[i].pc = "d_ret"
    /\ procs[i].q = 1
    /\ procs[i].lvl = "init"
    /\ HasFreeState
    /\ LET p == procs[i]
           s == FreeState
       IN /\ Commit([World EXCEPT !.so[s] = NewState(p.name), !.sm[p.name] = s],
                    [procs EXCEPT ![i].pc = "i_build", ![i].st = s])
          /\ deleted' = [deleted EXCEPT ![p.name] = IF p.kind = "timer" THEN @ ELSE FALSE]
    /\ UNCHANGED <<ping, calls, streak, lastDesired, mcpProvider, inflight, outcome, warnings, stopped>>

\* lines 144-155: the transport was built; store the connection, set the
\* handlers, start the handshake
InitBuildOk(i) ==
    /\ procs[i].pc = "i_build"
    /\ procs[i].q = 1
    /\ BuildOk(procs[i].cfg)
    /\ HasFreeConn
    /\ WarnsDeprecated(procs[i].cfg) => warnings[procs[i].name] < MaxWarnings
    /\ LET p == procs[i]
           c == FreeConn
       IN Commit([World EXCEPT !.co[c] = NewConn(p.name, p.cfg), !.cm[p.name] = c],
                 [procs EXCEPT ![i].pc = "i_connect", ![i].conn = c])
    /\ warnings' = [warnings EXCEPT ![procs[i].name] = IF WarnsDeprecated(procs[i].cfg)
                                                        THEN @ + 1 ELSE @]
    /\ UNCHANGED <<ping, calls, streak, deleted, lastDesired, mcpProvider, inflight, outcome,
                   stopped>>

\* lines 171-175: the catch block of initializeConnection
InitCatch(W, p) ==
    HandleDisconnection([W EXCEPT !.so[p.st].status = "disconnected"], p.name)

\* the transport builder threw (missing command or URL)
InitBuildFail(i) ==
    /\ procs[i].pc = "i_build"
    /\ procs[i].q = 1
    /\ ~BuildOk(procs[i].cfg)
    /\ Commit(InitCatch(World, procs[i]),
              [procs EXCEPT ![i].pc = "i_threw", ![i].st = 0,
                            ![i].err = BuildError(procs[i].name, procs[i].cfg)])
    /\ UNCHANGED <<ping, calls, streak, deleted, lastDesired, mcpProvider, inflight, outcome, warnings, stopped>>

\* line 155 resolved: the handshake succeeded; lines 161-163 fetch the
\* capabilities one after the other (each fetch catches its own errors);
\* this step requests the tools
ConnectOk(i) ==
    /\ procs[i].pc = "i_connect"
    /\ Commit(World, [procs EXCEPT ![i].pc = "i_fetch",
                                    ![i].tools = FetchOver(World, procs[i].name, procs[i].conn)])
    /\ UNCHANGED <<ping, calls, streak, deleted, lastDesired, mcpProvider, inflight, outcome, warnings, stopped>>

\* line 155 rejected: the handshake failed
ConnectFail(i) ==
    /\ procs[i].pc = "i_connect"
    /\ Commit(InitCatch(World, procs[i]),
              [procs EXCEPT ![i].pc = "i_threw", ![i].st = 0, ![i].conn = 0,
                            ![i].err = ConnectError])
    /\ UNCHANGED <<ping, calls, streak, deleted, lastDesired, mcpProvider, inflight, outcome, warnings, stopped>>

\* Lines 156-170 as they would be with the assignment of line 165 missing
InitSucceedStateLeft(W, p) ==
    StartPingMonitoring(
        [W EXCEPT !.co[p.conn] = [@ EXCEPT !.status = "connected",
                                           !.tools = p.tools,
                                           !.resources = p.resources,
                                           !.resourceTemplates = p.resourceTemplates,
                                           !.disabled = FALSE,
                                           !.error = <<>>]],
        p.name)

\* lines 156-170 once the three fetches are in: the Server record of the
\* caller's connection is replaced by a new one
InitSucceed(W, p) ==
    StartPingMonitoring(
        [W EXCEPT !.co[p.conn] = [@ EXCEPT !.status = "connected",
                                           !.tools = p.tools,
                                           !.resources = p.resources,
                                           !.resourceTemplates = p.resourceTemplates,
                                           !.disabled = FALSE,
                                           !.error = <<>>],
                  !.so[p.st] = [@ EXCEPT !.status = "connected", !.lastConnected = TRUE,
                                         !.reconnectAttempts = 0,
                                         !.consecutivePingFailures = 0]],
        p.name)

\* The call frame once initializeConnection has resolved
Resolved(p) == [p EXCEPT !.pc = "i_ret", !.st = 0, !.conn = 0, !.tools = "",
                         !.resources = "", !.resourceTemplates = "", !.failed = {}]

\* The catch of a fetch as it would be if it handed on the list it asked
\* for
ListOnErrorAsAsked(asked) == asked

\* The catch of fetchToolsList, fetchResourcesList and
\* fetchResourceTemplatesList (lines 334-340, 352-358, 370-376): the error
\* is logged and the fetch returns []
ListOnError(asked) == "empty"

\* A request was sent for the list: only then can it fail
Requested(l) == l \in {"own", "other"}

\* line 161: listTools failed; line 162 requests the resources.  p.failed
\* keeps the lists of this run that failed (history)
FetchToolsFailed(i) ==
    /\ procs[i].pc = "i_fetch"
    /\ Requested(procs[i].tools)
    /\ Commit(World, [procs EXCEPT ![i].pc = "i_resources",
                                    ![i].tools = ListOnError(@),
                                    ![i].failed = @ \cup {"tools"},
                                    ![i].resources = FetchOver(World, procs[i].name, procs[i].conn)])
    /\ UNCHANGED <<ping, calls, streak, deleted, lastDesired, mcpProvider, inflight, outcome, warnings, stopped>>

\* line 162: listResources failed; line 163 requests the resource templates
FetchResourcesFailed(i) ==
    /\ procs[i].pc = "i_resources"
    /\ Requested(procs[i].resources)
    /\ Commit(World, [procs EXCEPT ![i].pc = "i_templates",
                                    ![i].resources = ListOnError(@),
                                    ![i].failed = @ \cup {"resources"},
                                    ![i].resourceTemplates =
                                        FetchOver(World, procs[i].name, procs[i].conn)])
    /\ UNCHANGED <<ping, calls, streak, deleted, lastDesired, mcpProvider, inflight, outcome, warnings, stopped>>

\* line 163: listResourceTemplates failed; lines 156-170, the connection is
\* established
FetchResourceTemplatesFailed(i) ==
    /\ procs[i].pc = "i_templates"
    /\ Requested(procs[i].resourceTemplates)
    /\ \E p \in {[procs[i] EXCEPT !.resourceTemplates = ListOnError(@)]} :
          Commit(InitSucceed(World, p), [procs EXCEPT ![i] = Resolved(@)])
    /\ UNCHANGED <<ping, calls, streak, deleted, lastDesired, mcpProvider, inflight, outcome, warnings, stopped>>

\* line 161 resolved: the tools are in; line 162 requests the resources
FetchedTools(i) ==
    /\ procs[i].pc = "i_fetch"
    /\ Commit(World, [procs EXCEPT ![i].pc = "i_resources",
                                    ![i].resources = FetchOver(World, procs[i].name, procs[i].conn)])
    /\ UNCHANGED <<ping, calls, streak, deleted, lastDesired, mcpProvider, inflight, outcome, warnings, stopped>>

\* line 162 resolved: line 163 requests the resource templates
FetchedResources(i) ==
    /\ procs[i].pc = "i_resources"
    /\ Commit(World, [procs EXCEPT ![i].pc = "i_templates",
                                    ![i].resourceTemplates =
                                        FetchOver(World, procs[i].name, procs[i].conn)])
    /\ UNCHANGED <<ping, calls, streak, deleted, lastDesired, mcpProvider, inflight, outcome, warnings, stopped>>

\* line 163 resolved: lines 156-170, the connection is established
FetchedResourceTemplates(i) ==
    /\ procs[i].pc = "i_templates"
    /\ Commit(InitSucceed(World, procs[i]), [procs EXCEPT ![i] = Resolved(@)])
    /\ UNCHANGED <<ping, calls, streak, deleted, lastDesired, mcpProvider, inflight, outcome, warnings, stopped>>

\* lines 161-163 resolved one right after the other: the connection is
\* established
FetchedCapabilities(i) ==
    /\ procs[i].pc = "i_fetch"
    /\ \E p \in {[procs[i] EXCEPT
                      !.resources = FetchOver(World, procs[i].name, procs[i].conn),
                      !.resourceTemplates = FetchOver(World, procs[i].name, procs[i].conn)]} :
          Commit(InitSucceed(World, p), [procs EXCEPT ![i] = Resolved(@)])
    /\ UNCHANGED <<ping, calls, streak, deleted, lastDesired, mcpProvider, inflight, outcome, warnings, stopped>>

\* The caller of initializeConnection resumes after it resolved; p.ok keeps
\* the names this call has connected (history)
InitReturn(i) ==
    /\ procs[i].pc = "i_ret"
    /\ procs[i].q = 1
    /\ \E p \in {procs[i]} :
       \E r \in {IF p.kind = "reconcile"
                 THEN ReconcileLoop(World, [p EXCEPT !.ok = @ \cup {p.name}])
                 ELSE [w |-> World, p |-> Idle]} :
          /\ Commit(r.w, [procs EXCEPT ![i] = r.p])
          /\ mcpProvider' = ProviderAfter(p, r)
          /\ lastDesired' = IF p.kind = "reconcile" /\ r.p = Idle /\ NoOtherCall(i)
                            THEN <<p.desired>> ELSE lastDesired
    /\ UNCHANGED <<ping, calls, streak, deleted, inflight, outcome, warnings, stopped>>

\* The catch as it would be if the error left updateServerConnections
AfterThrowAbort(W, p) == [w |-> W, p |-> Idle]

\* The catch blocks of the callers of initializeConnection:
\* updateServerConnections logs the error and goes on with the next entry
\* (106-111, 117-122); restartConnection throws an error of its own (444-449)
AfterThrow(W, p) ==
    IF p.kind = "reconcile" THEN ReconcileLoop(W, [p EXCEPT !.err = <<>>])
    ELSE [w |-> W, p |-> Idle]

\* The catch of updateServerConnections (106, 117) or of restartConnection (444)
InitThrew(i) ==
    /\ procs[i].pc = "i_threw"
    /\ procs[i].q = 1
    /\ procs[i].kind # "timer"
    /\ \E p \in {procs[i]} :
       \E r \in {AfterThrow(World, p)} :
          /\ Commit(r.w, [procs EXCEPT ![i] = r.p])
          /\ mcpProvider' = ProviderAfter(p, r)
          /\ lastDesired' = IF p.kind = "reconcile" /\ r.p = Idle /\ NoOtherCall(i)
                            THEN <<p.desired>> ELSE lastDesired
    /\ UNCHANGED <<ping, calls, streak, deleted, inflight, outcome, warnings, stopped>>

(*************************** reconnect timer *******************************)
\* The setTimeout callback of handleDisconnection, lines 239-245, armed on
\* state object s
ReconnectTimerFire(s) ==
    /\ sobj[s].reconnectTimeout
    /\ QueueEmpty
    /\ LET n == sobj[s].name
           W0 == [World EXCEPT !.so[s] = [@ EXCEPT !.reconnectAttempts = @ + 1,
                                                   !.reconnectTimeout = FALSE,
                                                   !.delay = 0]]
       IN IF connections[n] = 0
          THEN Commit(W0, procs)
          ELSE /\ HasFreeSlot
               /\ \E r \in {CallInit(W0, [Idle EXCEPT !.kind = "timer"], n,
                                        Parse(cobj[connections[n]].config))} :
                  Commit(r.w, [procs EXCEPT ![FreeSlot] = r.p])
    /\ UNCHANGED <<ping, calls, streak, deleted, lastDesired, mcpProvider, inflight, outcome, warnings, stopped>>

\* lines 246-249: the reconnect attempt threw
ReconnectCatch(i) ==
    /\ procs[i].pc = "i_threw"
    /\ procs[i].q = 1
    /\ procs[i].kind = "timer"
    /\ Commit(HandleDisconnection(World, procs[i].name), [procs EXCEPT ![i] = Idle])
    /\ UNCHANGED <<ping, calls, deleted, lastDesired, mcpProvider, inflight, outcome, warnings, stopped>>

ReconnectFailed(i) == ReconnectCatch(i) /\ UNCHANGED streak

\* The same step, with the failed attempt counted
ReconnectFailedCounted(i) ==
    /\ procs[i].kind = "timer"
    /\ streak[procs[i].name] < MaxStreak
    /\ ReconnectCatch(i)
    /\ streak' = [streak EXCEPT ![procs[i].name] = @ + 1]

(*************************** ping monitoring *******************************)
\* The setInterval callback of startPingMonitoring, armed on state object s:
\* sendPing(name) up to its await (lines 205-211)
PingTick(s) ==
    /\ sobj[s].pingInterval
    /\ QueueEmpty
    /\ ping[sobj[s].name] = "none"
    /\ LET n == sobj[s].name IN
       /\ connectionStates[n] # 0 => sobj[connectionStates[n]].consecutivePingFailures < MaxPingCount
       /\ IF connections[n] = 0
          THEN Commit(HandlePingFailure(World, n), procs) /\ UNCHANGED ping
          ELSE /\ ping' = [ping EXCEPT ![n] = "io"]
               /\ UNCHANGED <<connections, connectionStates, sobj, cobj, procs>>
    /\ UNCHANGED <<calls, streak, deleted, lastDesired, mcpProvider, inflight, outcome, warnings, stopped>>

\* sendPing lines 213-214
PingSucceed(W, n) ==
    LET s == W.sm[n] IN
    IF s = 0 THEN W ELSE [W EXCEPT !.so[s].consecutivePingFailures = 0]

\* listTools answered within timeoutMs
PingOk(n) ==
    /\ ping[n] = "io"
    /\ Commit(PingSucceed(World, n), procs)
    /\ ping' = [ping EXCEPT ![n] = "none"]
    /\ UNCHANGED <<calls, streak, deleted, lastDesired, mcpProvider, inflight, outcome, warnings, stopped>>

\* sendPing rejected (listTools failed, or the timeout won)
PingFail(n) ==
    /\ ping[n] = "io"
    /\ Commit(HandlePingFailure(World, n), procs)
    /\ ping' = [ping EXCEPT ![n] = "none"]
    /\ UNCHANGED <<calls, streak, deleted, lastDesired, mcpProvider, inflight, outcome, warnings, stopped>>

(*************************** transport events ******************************)
\* The handlers of setupTransportHandlers are closed over the connection
\* object c and its name.
\* appendErrorMessage(connection, error), lines 310-313
AppendErrorMessage(W, c, msg) == [W EXCEPT !.co[c].error = Append(@, msg)]

\* transport.onerror, lines 180-185: the message is appended to the error
\* text of the handler's connection
OnError(W, c) ==
    HandleDisconnection(
        AppendErrorMessage([W EXCEPT !.co[c].status = "disconnected"], c, "transport error"),
        W.co[c].name)

\* transport.onclose, lines 186-189
OnClose(W, c) == HandleDisconnection([W EXCEPT !.co[c].status = "disconnected"], W.co[c].name)

\* transport.onerror of a transport that is in use
TransportError(c) ==
    /\ QueueEmpty
    /\ cobj[c].open
    /\ ~cobj[c].errd
    /\ ~cobj[c].gone
    /\ Commit(OnError([World EXCEPT !.co[c].errd = TRUE], c), procs)
    /\ UNCHANGED <<ping, calls, streak, deleted, lastDesired, mcpProvider, inflight, outcome, warnings, stopped>>

\* transport.onclose because the server went away
TransportClosed(c) ==
    /\ QueueEmpty
    /\ cobj[c].open
    /\ ~cobj[c].gone
    /\ Commit(OnClose([World EXCEPT !.co[c].gone = TRUE], c), procs)
    /\ UNCHANGED <<ping, calls, streak, deleted, lastDesired, mcpProvider, inflight, outcome, warnings, stopped>>

\* transport.onclose delivered after the manager closed the transport
TransportCloseEvent(c) ==
    /\ QueueEmpty
    /\ cobj[c].evt
    /\ Commit(OnClose([World EXCEPT !.co[c].evt = FALSE], c), procs)
    /\ UNCHANGED <<ping, calls, streak, deleted, lastDesired, mcpProvider, inflight, outcome, warnings, stopped>>

(*************************** callTool / readResource ***********************)
\* No callTool or readResource has ended yet
NoOutcome == [op |-> "", name |-> "", result |-> "none"]

\* The checks both methods make before they send anything (lines 393-400,
\* 423-429), without the one for a disabled server
RefusalIgnoringDisabled(W, n) == IF W.cm[n] = 0 THEN "unknown" ELSE "none"

\* The checks both methods make before they send anything (lines 393-400,
\* 423-429): which error they throw, "none" when the request goes out
Refusal(W, n) ==
    IF W.cm[n] = 0 THEN "unknown"
    ELSE IF W.co[W.cm[n]].disabled THEN "disabled"
    ELSE "none"

\* A request of kind op ("tool", "resource") is sent to the client of n
Send(op, n) == [inflight EXCEPT ![n][op] = @ + 1]

\* One request of kind op to the client of n is settled
Settle(op, n) == [inflight EXCEPT ![n][op] = @ - 1]

\* What a rejected or malformed answer does to the manager when it counts
\* as a failed ping
CallFailedCounted(W, n) == HandlePingFailure(W, n)

\* What a rejected or malformed answer does to the manager: callTool and
\* readResource have no catch around the request (lines 413-419, 430), the
\* error goes to the caller
CallFailed(W, n) == W

\* The host sets or clears `disabled` on the Server record of n, which
\* getServers and the connection map hand out by reference
SetDisabled(n, b) ==
    /\ QueueEmpty
    /\ connections[n] # 0
    /\ cobj[connections[n]].disabled # b
    /\ Commit([World EXCEPT !.co[connections[n]].disabled = b], procs)
    /\ UNCHANGED <<ping, calls, streak, deleted, lastDesired, mcpProvider, inflight, outcome, warnings, stopped>>

\* callTool(serverName, ...), lines 389-413, to its await or its throw
CallTool(n) ==
    /\ QueueEmpty
    /\ \E r \in {Refusal(World, n)} :
          IF r = "none"
          THEN /\ inflight[n].tool < MaxInFlight
               /\ inflight' = Send("tool", n)
               /\ UNCHANGED outcome
          ELSE /\ outcome' = [op |-> "callTool", name |-> n, result |-> r]
               /\ UNCHANGED inflight
    /\ UNCHANGED <<connections, connectionStates, sobj, cobj, procs, ping, calls, streak,
                   deleted, lastDesired, mcpProvider, warnings, stopped>>

\* client.callTool resolved: lines 414-419
ToolAnswered(n, content) ==
    /\ inflight[n].tool > 0
    /\ inflight' = Settle("tool", n)
    /\ IF content
       THEN /\ outcome' = [op |-> "callTool", name |-> n, result |-> "returned"]
            /\ UNCHANGED <<connections, connectionStates, sobj, cobj, procs>>
       ELSE /\ outcome' = [op |-> "callTool", name |-> n, result |-> "invalid"]
            /\ Commit(CallFailed(World, n), procs)
    /\ UNCHANGED <<ping, calls, streak, deleted, lastDesired, mcpProvider, warnings, stopped>>

\* client.callTool rejected (an error of the client, or its timeout)
ToolRejected(n) ==
    /\ inflight[n].tool > 0
    /\ inflight' = Settle("tool", n)
    /\ outcome' = [op |-> "callTool", name |-> n, result |-> "rejected"]
    /\ Commit(CallFailed(World, n), procs)
    /\ UNCHANGED <<ping, calls, streak, deleted, lastDesired, mcpProvider, warnings, stopped>>

\* readResource(serverName, uri), lines 422-430, to its await or its throw
ReadResource(n) ==
    /\ QueueEmpty
    /\ \E r \in {Refusal(World, n)} :
          IF r = "none"
          THEN /\ inflight[n].resource < MaxInFlight
               /\ inflight' = Send("resource", n)
               /\ UNCHANGED outcome
          ELSE /\ outcome' = [op |-> "readResource", name |-> n, result |-> r]
               /\ UNCHANGED inflight
    /\ UNCHANGED <<connections, connectionStates, sobj, cobj, procs, ping, calls, streak,
                   deleted, lastDesired, mcpProvider, warnings, stopped>>

\* client.readResource resolved: line 430
ResourceAnswered(n) ==
    /\ inflight[n].resource > 0
    /\ inflight' = Settle("resource", n)
    /\ outcome' = [op |-> "readResource", name |-> n, result |-> "returned"]
    /\ UNCHANGED <<connections, connectionStates, sobj, cobj, procs, ping, calls, streak,
                   deleted, lastDesired, mcpProvider, warnings, stopped>>

\* client.readResource rejected
ResourceRejected(n) ==
    /\ inflight[n].resource > 0
    /\ inflight' = Settle("resource", n)
    /\ outcome' = [op |-> "readResource", name |-> n, result |-> "rejected"]
    /\ Commit(CallFailed(World, n), procs)
    /\ UNCHANGED <<ping, calls, streak, deleted, lastDesired, mcpProvider, warnings, stopped>>

(*************************** specification *********************************)
InitFor(names, slots) ==
    /\ connections = [n \in names |-> 0]
    /\ connectionStates = [n \in names |-> 0]
    /\ sobj = [s \in 1..MaxS |-> NoState]
    /\ cobj = [c \in 1..MaxC |-> NoConn]
    /\ procs = [i \in 1..slots |-> Idle]
    /\ ping = [n \in names |-> "none"]
    /\ calls = 0
    /\ streak = [n \in names |-> 0]
    /\ deleted = [n \in names |-> FALSE]
    /\ lastDesired = <<>>
    /\ mcpProvider = EmptyProvider
    /\ inflight = [n \in names |-> [tool |-> 0, resource |-> 0]]
    /\ outcome = NoOutcome
    /\ warnings = [n \in names |-> 0]
    /\ stopped = "no"

InitWith(slots) == InitFor(InitNames, slots)

Init == InitWith(MaxProcs)

InitTwo == InitFor(TwoNames, MaxProcs)

\* Continuations of deleteConnection and initializeConnection
Lifecycle ==
    \/ \E i \in DOMAIN procs : DeleteTransportClosed(i)
    \/ \E i \in DOMAIN procs : DeleteClientClosed(i)
    \/ \E i \in DOMAIN procs : InitStart(i)
    \/ \E i \in DOMAIN procs : InitBuildOk(i)
    \/ \E i \in DOMAIN procs : InitBuildFail(i)
    \/ \E i \in DOMAIN procs : ConnectFail(i)
    \/ \E i \in DOMAIN procs : InitThrew(i)
    \/ \E s \in DOMAIN sobj : ReconnectTimerFire(s)

Established ==
    \/ \E i \in DOMAIN procs : ConnectOk(i)
    \/ \E i \in DOMAIN procs : FetchedCapabilities(i)
    \/ \E i \in DOMAIN procs : InitReturn(i)

TransportEvents ==
    \/ \E c \in DOMAIN cobj : TransportError(c)
    \/ \E c \in DOMAIN cobj : TransportClosed(c)
    \/ \E c \in DOMAIN cobj : TransportCloseEvent(c)

PingMonitor ==
    \/ \E s \in DOMAIN sobj : PingTick(s)
    \/ \E n \in ServerNames : PingOk(n)
    \/ \E n \in ServerNames : PingFail(n)

\* A transport is closed, by the server or by the manager
TransportCloses ==
    \/ \E c \in DOMAIN cobj : TransportClosed(c)
    \/ \E c \in DOMAIN cobj : TransportCloseEvent(c)

\* The service as its constructor starts it, left to its timers, its pings
\* and servers that may go away
Next ==
    \/ \E d \in StartupMaps : InitializeMcpServers(d)
    \/ Lifecycle
    \/ Established
    \/ \E i \in DOMAIN procs : ReconnectFailed(i)
    \/ TransportCloses
    \/ PingMonitor

Spec == Init /\ [][Next]_vars

\* The host calls the service once more after construction; the ping
\* monitor is left out
NextHost ==
    \/ \E d \in StartupMaps : InitializeMcpServers(d)
    \/ \E d \in DesiredMaps : Reconcile(d)
    \/ \E n \in ServerNames : Restart(n)
    \/ \E n \in ServerNames : Delete(n)
    \/ \E i \in DOMAIN procs : DeleteReturn(i)
    \/ Lifecycle
    \/ Established
    \/ \E i \in DOMAIN procs : ReconnectFailed(i)
    \/ TransportCloses

SpecHost == Init /\ [][NextHost]_vars

\* A server none of whose connection attempts succeeds
NextBackoff ==
    \/ \E d \in StartupMaps : InitializeMcpServers(d)
    \/ Lifecycle
    \/ \E i \in DOMAIN procs : ReconnectFailedCounted(i)
    \/ TransportEvents

SpecBackoff == Init /\ [][NextBackoff]_vars

\* Three async calls may overlap, on a server that closes its transports
\* and completes no handshake
InitOverlap == InitWith(MaxOverlap)

NextOverlap ==
    \/ \E d \in StartupMaps : InitializeMcpServers(d)
    \/ Lifecycle
    \/ \E i \in DOMAIN procs : ReconnectFailed(i)
    \/ TransportCloses

SpecOverlap == InitOverlap /\ [][NextOverlap]_vars

\* The three capability fetches of initializeConnection, each one a step
Fetches ==
    \/ \E i \in DOMAIN procs : ConnectOk(i)
    \/ \E i \in DOMAIN procs : FetchedTools(i)
    \/ \E i \in DOMAIN procs : FetchedResources(i)
    \/ \E i \in DOMAIN procs : FetchedResourceTemplates(i)
    \/ \E i \in DOMAIN procs : InitReturn(i)

\* Every path to a connection (startup, backoff reconnect, restart, changed
\* config) with the capability fetches taken one at a time
NextCaps ==
    \/ \E d \in StartupMaps : InitializeMcpServers(d)
    \/ \E d \in DesiredMaps : Reconcile(d)
    \/ \E n \in ServerNames : Restart(n)
    \/ \E i \in DOMAIN procs : DeleteReturn(i)
    \/ Lifecycle
    \/ Fetches
    \/ \E i \in DOMAIN procs : ReconnectFailed(i)
    \/ \E c \in DOMAIN cobj : TransportCloseEvent(c)

SpecCaps == Init /\ [][NextCaps]_vars

\* Two servers are configured at construction; no server goes away
NextTwo ==
    \/ \E d \in StartupMapsTwo : InitializeMcpServers(d)
    \/ Lifecycle
    \/ Established
    \/ \E i \in DOMAIN procs : ReconnectFailed(i)
    \/ \E c \in DOMAIN cobj : TransportCloseEvent(c)

SpecTwo == InitTwo /\ [][NextTwo]_vars

\* Two servers are configured; the handshake of server "a" neither resolves
\* nor rejects, the handshake of server "b" succeeds whenever it is tried,
\* and its pings may fail.  Whatever the service can do, it does in the end.
NextHang ==
    \/ \E d \in StartupMapsTwo : InitializeMcpServers(d)
    \/ \E i \in DOMAIN procs : DeleteTransportClosed(i)
    \/ \E i \in DOMAIN procs : DeleteClientClosed(i)
    \/ \E c \in DOMAIN cobj : TransportCloseEvent(c)
    \/ PingMonitor
    \/ \E i \in DOMAIN procs : InitStart(i)
    \/ \E i \in DOMAIN procs : InitBuildOk(i)
    \/ \E i \in DOMAIN procs : InitBuildFail(i)
    \/ \E i \in DOMAIN procs : InitThrew(i)
    \/ \E s \in DOMAIN sobj : ReconnectTimerFire(s)
    \/ \E i \in DOMAIN procs : procs[i].name = "b" /\ ConnectOk(i)
    \/ \E i \in DOMAIN procs : FetchedCapabilities(i)
    \/ \E i \in DOMAIN procs : InitReturn(i)

SpecHang == InitTwo /\ [][NextHang]_vars /\ WF_vars(NextHang)

\* The host reconciles once more after construction, with configurations
\* whose fields may come in another order; every server stays up
NextReordered ==
    \/ \E d \in StartupMaps : InitializeMcpServers(d)
    \/ \E d \in ReorderedMaps : Reconcile(d)
    \/ \E i \in DOMAIN procs : DeleteReturn(i)
    \/ Lifecycle
    \/ Established
    \/ \E i \in DOMAIN procs : ReconnectFailed(i)
    \/ \E c \in DOMAIN cobj : TransportCloseEvent(c)

SpecReordered == Init /\ [][NextReordered]_vars

\* Two servers are configured, the second one always with a valid
\* configuration
StartupMapsBoth == {d \in StartupMapsTwo : DOMAIN d = TwoNames /\ d["b"] = CfgStdio}

\* Two servers, each with its own connect failures, failing pings and
\* timers, the transport of server "a" failing while it is connected, and
\* the host's restartConnection and deleteConnection
NextFrame ==
    \/ \E d \in StartupMapsBoth : InitializeMcpServers(d)
    \/ \E n \in ServerNames : Restart(n)
    \/ \E n \in ServerNames : Delete(n)
    \/ \E i \in DOMAIN procs : DeleteReturn(i)
    \/ Lifecycle
    \/ Established
    \/ \E i \in DOMAIN procs : ReconnectFailed(i)
    \/ \E c \in DOMAIN cobj :
          cobj[c].status = "connected" /\ cobj[c].name = "a" /\ TransportError(c)
    \/ \E s \in DOMAIN sobj : PingTick(s)
    \/ \E n \in ServerNames : PingFail(n)

SpecFrame == InitTwo /\ [][NextFrame]_vars

\* Two servers are configured and stay up; each capability fetch may fail
NextFetch ==
    \/ \E d \in StartupMapsTwo : InitializeMcpServers(d)
    \/ \E i \in DOMAIN procs : InitStart(i)
    \/ \E i \in DOMAIN procs : InitBuildOk(i)
    \/ \E i \in DOMAIN procs : InitBuildFail(i)
    \/ \E i \in DOMAIN procs : ConnectFail(i)
    \/ \E i \in DOMAIN procs : InitThrew(i)
    \/ Fetches
    \/ \E i \in DOMAIN procs : FetchToolsFailed(i)
    \/ \E i \in DOMAIN procs : FetchResourcesFailed(i)
    \/ \E i \in DOMAIN procs : FetchResourceTemplatesFailed(i)

SpecFetch == InitTwo /\ [][NextFetch]_vars

\* The server is configured with the deprecated transport type; the
\* handshake may fail and be retried, and the host may restart the server
SseMaps == UNION {[D -> {CfgSse, CfgSseNoUrl}] : D \in SUBSET InitNames}

NextSse ==
    \/ \E d \in SseMaps : InitializeMcpServers(d)
    \/ \E n \in ServerNames : Restart(n)
    \/ \E i \in DOMAIN procs : DeleteReturn(i)
    \/ Lifecycle
    \/ Established
    \/ \E i \in DOMAIN procs : ReconnectFailed(i)

SpecSse == Init /\ [][NextSse]_vars

\* The host stops the service while the work of its constructor, of a
\* reconnect timer or of a restartConnection may be under way
NextStop ==
    \/ \E d \in StartupMaps : InitializeMcpServers(d)
    \/ \E n \in ServerNames : stopped = "no" /\ Restart(n)
    \/ \E i \in DOMAIN procs : DeleteReturn(i)
    \/ Stop
    \/ \E i \in DOMAIN procs : StopResume(i)
    \/ Lifecycle
    \/ Established
    \/ \E i \in DOMAIN procs : ReconnectFailed(i)
    \/ \E c \in DOMAIN cobj : cobj[c].status = "connected" /\ TransportClosed(c)

SpecStop == Init /\ [][NextStop]_vars

\* Server "a" is configured and the host leaves the service alone.  The
\* server accepts every handshake; once connected it may close its
\* transport, report an error on it, or stop answering pings.
StartupUp == {d \in StartupMaps : DOMAIN d = InitNames /\ \A n \in InitNames : d[n] = CfgStdio}

NextRecover ==
    \/ \E d \in StartupUp : InitializeMcpServers(d)
    \/ \E i \in DOMAIN procs : DeleteTransportClosed(i)
    \/ \E i \in DOMAIN procs : DeleteClientClosed(i)
    \/ \E i \in DOMAIN procs : InitStart(i)
    \/ \E i \in DOMAIN procs : InitBuildOk(i)
    \/ \E s \in DOMAIN sobj : ReconnectTimerFire(s)
    \/ \E i \in DOMAIN procs : ConnectOk(i)
    \/ \E i \in DOMAIN procs : FetchedCapabilities(i)
    \/ \E i \in DOMAIN procs : InitReturn(i)
    \/ \E c \in DOMAIN cobj : cobj[c].status = "connected" /\ TransportClosed(c)
    \/ \E c \in DOMAIN cobj : cobj[c].status = "connected" /\ TransportError(c)
    \/ \E c \in DOMAIN cobj : TransportCloseEvent(c)
    \/ \E s \in DOMAIN sobj : PingTick(s)
    \/ \E n \in ServerNames : PingFail(n)

\* Every continuation whose promise has settled runs, every pending timer
\* fires and every event is delivered once the event loop is free, and
\* every handshake completes
FairRecover ==
    /\ WF_vars(\E i \in DOMAIN procs : DeleteTransportClosed(i))
    /\ WF_vars(\E i \in DOMAIN procs : DeleteClientClosed(i))
    /\ WF_vars(\E i \in DOMAIN procs : InitStart(i))
    /\ WF_vars(\E i \in DOMAIN procs : InitBuildOk(i))
    /\ WF_vars(\E i \in DOMAIN procs : FetchedCapabilities(i))
    /\ WF_vars(\E i \in DOMAIN procs : InitReturn(i))
    /\ SF_vars(\E s \in DOMAIN sobj : ReconnectTimerFire(s))
    /\ SF_vars(\E c \in DOMAIN cobj : TransportCloseEvent(c))
    /\ SF_vars(\E i \in DOMAIN procs : ConnectOk(i))

SpecRecover == Init /\ [][NextRecover]_vars /\ FairRecover

\* The configured server may lack its command or its url, at construction
\* or after the host changed the configuration
ConfigMaps ==
    UNION {[D -> {CfgStdio, CfgHttp, CfgNoCommand, CfgEmptyCommand, CfgHttpNoUrl}] :
           D \in SUBSET InitNames}

NextConfig ==
    \/ \E d \in ConfigMaps : InitializeMcpServers(d)
    \/ \E d \in ConfigMaps : Reconcile(d)
    \/ \E i \in DOMAIN procs : DeleteReturn(i)
    \/ Lifecycle
    \/ Established
    \/ \E i \in DOMAIN procs : ReconnectFailed(i)

SpecConfig == Init /\ [][NextConfig]_vars

\* callTool and readResource of the host, and what the servers answer
Requests ==
    \/ \E n \in ServerNames : \E b \in BOOLEAN : SetDisabled(n, b)
    \/ \E n \in ServerNames : CallTool(n)
    \/ \E n \in ServerNames : \E content \in BOOLEAN : ToolAnswered(n, content)
    \/ \E n \in ServerNames : ToolRejected(n)
    \/ \E n \in ServerNames : ReadResource(n)
    \/ \E n \in ServerNames : ResourceAnswered(n)
    \/ \E n \in ServerNames : ResourceRejected(n)

\* The service after construction, serving callTool and readResource while
\* connected servers go away and are reconnected; the ping monitor is left
\* out
NextCalls ==
    \/ \E d \in StartupMaps : InitializeMcpServers(d)
    \/ Lifecycle
    \/ Established
    \/ \E i \in DOMAIN procs : ReconnectFailed(i)
    \/ \E c \in DOMAIN cobj : cobj[c].status = "connected" /\ TransportClosed(c)
    \/ Requests

SpecCalls == Init /\ [][NextCalls]_vars

(*************************** claims ****************************************)
\* No async call is suspended
Quiet == \A i \in DOMAIN procs : procs[i] = Idle

\* The reconnect timer of the state registered under n is pending
TimerPending(n) == connectionStates[n] # 0 /\ sobj[connectionStates[n]].reconnectTimeout

\* C1: for a server whose connection attempts keep failing, the reconnect
\* timer armed after the k-th failed reconnect attempt (k = 0..4) has the
\* delay INITIAL_RETRY_DELAY * BACKOFF_MULTIPLIER^k: 2000, 4000, 8000,
\* 16000, 32000.
C1_BackoffDelays ==
    \A n \in ServerNames :
        (Quiet /\ TimerPending(n) /\ streak[n] < MAX_RECONNECT_ATTEMPTS)
            => sobj[connectionStates[n]].delay = ReconnectDelay(streak[n])

\* C2: a server whose every connection attempt fails undergoes at most
\* MAX_RECONNECT_ATTEMPTS automatic reconnect attempts: after the 5th failed
\* attempt its state is 'failed' and no reconnect timer is armed for it.
C2_RetriesBounded ==
    \A n \in ServerNames :
        (Quiet /\ streak[n] >= MAX_RECONNECT_ATTEMPTS)
            => /\ connectionStates[n] # 0
               /\ sobj[connectionStates[n]].status = "failed"
               /\ \A s \in DOMAIN sobj : sobj[s].name = n => ~sobj[s].reconnectTimeout

\* The state objects created for n that hold a timer of each kind
PingTimers(n) == {s \in DOMAIN sobj : sobj[s].name = n /\ sobj[s].pingInterval}
ReconnectTimers(n) == {s \in DOMAIN sobj : sobj[s].name = n /\ sobj[s].reconnectTimeout}

\* C3: in every reachable state each server name has at most one active
\* ping interval and at most one pending reconnect timeout, counting the
\* timers of every state object created for the name, replaced ones too.
C3_OneTimerOfEachKind ==
    \A n \in ServerNames :
        Cardinality(PingTimers(n)) <= 1 /\ Cardinality(ReconnectTimers(n)) <= 1

\* C4: in every reachable state every transport that was created and not
\* yet closed is the one stored in the connection map under its name, so at
\* most one live connection exists per server name.
C4_OneLiveConnection ==
    \A c \in DOMAIN cobj :
        (cobj[c].open /\ ~cobj[c].gone) => connections[cobj[c].name] = c

\* Connection c is not the one registered under its name
Superseded(c) == cobj[c].name \in ServerNames /\ connections[cobj[c].name] # c

\* An event of a superseded connection generation is delivered: an event
\* of its transport, or the outcome of the handshake started on it
StaleEvent ==
    \/ \E c \in DOMAIN cobj :
          /\ Superseded(c)
          /\ TransportError(c) \/ TransportClosed(c) \/ TransportCloseEvent(c)
    \/ \E i \in DOMAIN procs :
          /\ procs[i].pc = "i_connect"
          /\ connections[procs[i].name] # procs[i].conn
          /\ ConnectOk(i) \/ ConnectFail(i)

\* What is registered under each name stays as it is
CurrentUnchanged ==
    \A n \in ServerNames :
        /\ (connectionStates[n] = 0) = (connectionStates'[n] = 0)
        /\ connectionStates[n] # 0 => sobj'[connectionStates'[n]] = sobj[connectionStates[n]]
        /\ (connections[n] = 0) = (connections'[n] = 0)
        /\ connections[n] # 0 => cobj'[connections'[n]].status = cobj[connections[n]].status

\* C5: an event that originates from a superseded connection generation
\* never changes the ConnectionState, the timers or the Server record of
\* the generation registered under that name.
C5_StaleEventsIgnored == [][StaleEvent => CurrentUnchanged]_vars

\* C6: once deleteConnection(name) has completed, no Connection,
\* ConnectionState or timer for that name reappears until reconciliation or
\* restartConnection creates one.
C6_DeletedStaysDeleted ==
    \A n \in ServerNames :
        deleted[n] => /\ connections[n] = 0
                      /\ connectionStates[n] = 0
                      /\ PingTimers(n) = {}
                      /\ ReconnectTimers(n) = {}

\* Server n is connected and monitored: its registered state and Server
\* record say so and its ping interval runs
Connected(n) ==
    /\ connections[n] # 0
    /\ connectionStates[n] # 0
    /\ cobj[connections[n]].status = "connected"
    /\ sobj[connectionStates[n]].status = "connected"
    /\ sobj[connectionStates[n]].pingInterval

\* The registered state of n before and after the step
StateOf(n) == sobj[connectionStates[n]]
StateAfter(n) == sobj'[connectionStates'[n]]

\* handleDisconnection ran once on the registered state of n
DisconnectedOnce(n) ==
    /\ connectionStates'[n] # 0
    /\ StateAfter(n).status = "disconnected"
    /\ ~StateAfter(n).pingInterval
    /\ StateAfter(n).reconnectTimeout
    /\ StateAfter(n).delay = ReconnectDelay(StateOf(n).reconnectAttempts)
    /\ StateAfter(n).consecutivePingFailures = StateOf(n).consecutivePingFailures + 1
    /\ StateAfter(n).reconnectAttempts = StateOf(n).reconnectAttempts

\* Nothing but the failure counter of the registered state of n changed
OnlyCounter(n, k) ==
    /\ connectionStates'[n] # 0
    /\ StateAfter(n) = [StateOf(n) EXCEPT !.consecutivePingFailures = k]

\* C7: for a connected server the ping failure that brings the count of
\* consecutive failures to FailuresBeforeDisconnect causes one disconnection
\* (status disconnected, ping timer cleared, one reconnect timer armed); an
\* earlier failure only counts, and a successful ping sets the counter to 0
\* and disconnects nothing.
C7_PingThreshold ==
    [][\A n \in ServerNames :
          /\ (Connected(n) /\ PingFail(n)) =>
                IF StateOf(n).consecutivePingFailures + 1 >= FailuresBeforeDisconnect
                THEN DisconnectedOnce(n)
                ELSE OnlyCounter(n, StateOf(n).consecutivePingFailures + 1)
          /\ (Connected(n) /\ PingOk(n)) => OnlyCounter(n, 0)]_vars

\* A server whose pings failed FailuresBeforeDisconnect times in a row is
\* disconnected and waits for its reconnect timer
C7_ThresholdReached ==
    \E n \in ServerNames :
        /\ connectionStates[n] # 0
        /\ connections[n] # 0
        /\ StateOf(n).consecutivePingFailures = FailuresBeforeDisconnect
        /\ StateOf(n).status = "disconnected"
        /\ StateOf(n).reconnectTimeout
        /\ ~StateOf(n).pingInterval

\* C8: a reconciliation with the desired map of the reconciliation that
\* completed just before it performs no deleteConnection and no
\* initializeConnection, so it never has to wait for one.
C8_ReconcileIdempotent ==
    \A i \in DOMAIN procs : procs[i].kind = "reconcile" => ~procs[i].same

\* Call i is the teardown of line 96 (removal) waiting for client.close()
RemovalCloses(i) ==
    procs[i].kind = "reconcile" /\ procs[i].phase = "del" /\ procs[i].pc = "d_cclose"

\* Call i is the teardown of line 114 (changed config) waiting for client.close()
ReplaceCloses(i) ==
    /\ procs[i].kind = "reconcile"
    /\ procs[i].phase = "upd"
    /\ procs[i].lvl = "op"
    /\ procs[i].pc = "d_cclose"

ClosedOnce(c) == cobj[c].tcloses = 1 /\ cobj[c].ccloses = 1

\* Nothing is registered for n after the step and none of its timers is active
NothingLeft(n) ==
    /\ connections'[n] = 0
    /\ connectionStates'[n] = 0
    /\ \A s \in DOMAIN sobj' :
          sobj'[s].name = n => ~sobj'[s].pingInterval /\ ~sobj'[s].reconnectTimeout

\* C9: when a reconciliation removes a name, that server's transport and
\* client are closed exactly once, its entries leave both maps, and
\* afterwards no ping timer and no reconnect timer is active for it.
C9_RemovalTearsDownOnce ==
    [][\A i \in DOMAIN procs :
          (RemovalCloses(i) /\ DeleteClientClosed(i))
              => ClosedOnce(procs[i].conn) /\ NothingLeft(procs[i].name)]_vars

\* The connection call i has just established is the one connection of its
\* name, with the configuration the call was given
OneNewConnection(i) ==
    LET n == procs[i].name IN
    /\ connections'[n] # 0
    /\ cobj'[connections'[n]].config = Stringify(procs[i].cfg)
    /\ cobj'[connections'[n]].status = "connected"
    /\ \A c \in DOMAIN cobj' :
          (cobj'[c].name = n /\ cobj'[c].open) => c = connections'[n]

\* C10: when a reconciliation finds a name whose desired config differs from
\* the stored one, the old connection is closed exactly once and exactly one
\* new connection is established with the new config.
C10_ReplaceOnce ==
    [][\A i \in DOMAIN procs :
          /\ (ReplaceCloses(i) /\ DeleteClientClosed(i)) => ClosedOnce(procs[i].conn)
          /\ (procs[i].kind = "reconcile" /\ procs[i].phase = "upd"
                 /\ FetchedCapabilities(i)) => OneNewConnection(i)]_vars

\* The capability lists of the Server record registered under n
Capabilities(n) ==
    <<cobj[connections[n]].tools, cobj[connections[n]].resources,
      cobj[connections[n]].resourceTemplates>>

NotFetched == <<"undef", "undef", "undef">>
FetchedOverOwn == <<"own", "own", "own">>

\* C11: the capability lists visible for a server are those fetched over
\* the connection that is registered for it: a registered Server record has
\* no list yet or three lists requested over its own connection, never a
\* list obtained over another connection generation of the name, and once
\* its status is 'connected' the three lists are there.
C11_FullReplace ==
    \A n \in ServerNames :
        connections[n] # 0 =>
            /\ Capabilities(n) \in {NotFetched, FetchedOverOwn}
            /\ cobj[connections[n]].status = "connected" => Capabilities(n) = FetchedOverOwn

\* A restartConnection has completed and the server is connected again,
\* with the lists of its new connection
C11_Reconnected ==
    \E n \in ServerNames :
        /\ calls = 2
        /\ lastDesired = <<>>
        /\ Quiet
        /\ Connected(n)
        /\ cobj[connections[n]].tcloses = 0
        /\ Capabilities(n) = FetchedOverOwn

\* The provider snapshot says what getServers() says now
UpToDate == mcpProvider = BuildMcpProviderData(World)

\* No reconciliation is under way after the step
ReconcileOver == \A j \in DOMAIN procs' : procs'[j].kind # "reconcile"

\* The step completes a backoff reconnect that succeeded, a
\* restartConnection, a deleteConnection or a reconciliation
OperationCompletes ==
    \/ \E i \in DOMAIN procs : procs[i].kind \in {"timer", "restart"} /\ InitReturn(i)
    \/ \E i \in DOMAIN procs : procs[i].kind = "restart" /\ InitThrew(i)
    \/ \E i \in DOMAIN procs : procs[i].kind = "delete" /\ DeleteReturn(i)
    \/ \E i \in DOMAIN procs :
          /\ procs[i].kind = "reconcile"
          /\ InitReturn(i) \/ InitThrew(i) \/ DeleteReturn(i)
          /\ ReconcileOver
    \/ \E d \in DesiredMaps : UpdateServerConnections(d) /\ ReconcileOver

\* C12: once a successful backoff reconnect, a restartConnection, a
\* deleteConnection or a reconciliation has completed, the provider snapshot
\* lists exactly the current non-disabled servers with their current
\* status, tools and resources.
C12_SnapshotRebuilt == [][OperationCompletes => UpToDate']_vars

\* initializeConnection was called for n: a ConnectionState is registered
\* for it, or a reconnect attempt is about to register one
Attempted(n) ==
    \/ connectionStates[n] # 0
    \/ \E i \in DOMAIN procs : procs[i].kind = "timer" /\ procs[i].name = n

\* C13: an error thrown while one server is initialized (missing command,
\* failed handshake) is caught inside updateServerConnections, which goes
\* on with the later servers of the desired map and returns normally: once
\* it has returned, initializeConnection has been called for every server
\* of the map.
C13_ErrorsContained ==
    lastDesired # <<>> => \A n \in DOMAIN lastDesired[1] : Attempted(n)

\* The first server of the map could not be built, the second one failed
\* its handshake, and the reconciliation has returned
C13_LaterServerProcessed ==
    /\ lastDesired = << [n \in TwoNames |-> IF n = "a" THEN CfgNoCommand ELSE CfgStdio] >>
    /\ connections["a"] = 0
    /\ connectionStates["a"] # 0
    /\ connections["b"] # 0
    /\ connectionStates["b"] # 0
    /\ sobj[connectionStates["b"]].status = "disconnected"

\* The names for which the initializeConnection of call i has resolved
Succeeded(i) ==
    procs[i].ok \cup (IF procs[i].pc = "i_ret" THEN {procs[i].name} ELSE {})

\* ConnectionState and Server record of n say connected and the three
\* capability lists are set
ConnectedWithLists(n) ==
    /\ connections[n] # 0
    /\ connectionStates[n] # 0
    /\ sobj[connectionStates[n]].status = "connected"
    /\ cobj[connections[n]].status = "connected"
    /\ "undef" \notin {cobj[connections[n]].tools, cobj[connections[n]].resources,
                       cobj[connections[n]].resourceTemplates}

WantsB ==
    \E i \in DOMAIN procs :
        /\ procs[i].kind = "reconcile"
        /\ "b" \in DOMAIN procs[i].desired
        /\ BuildOk(procs[i].desired["b"])

\* C15: a server whose handshake never completes does not keep the other
\* servers of the same desired map from being initialized: server "b",
\* whose handshake succeeds, is connected in the end whatever server "a"
\* does.
C15_OthersProgress == WantsB ~> ConnectedWithLists("b")

\* Call i is the restartConnection of its server
IsRestart(i) == procs[i].kind = "restart"

\* The teardown of restartConnection (line 441) finishes with this step
RestartTornDown(i) == IsRestart(i) /\ procs[i].lvl = "op" /\ DeleteClientClosed(i)

\* The new attempt of restartConnection registers its state with this step
RestartAttempts(i) == IsRestart(i) /\ InitStart(i)

\* restartConnection resolves with this step
RestartResolves(i) == IsRestart(i) /\ InitReturn(i)

\* The registered state of n is a new one: connecting, both counters 0, no
\* timer
FreshState(n) ==
    /\ connectionStates'[n] # 0
    /\ StateAfter(n) = NewState(n)

\* callTool or readResource of n is called with this step
Called(op, n) ==
    IF op = "callTool" THEN CallTool(n) ELSE ReadResource(n)

\* The step sends nothing to a client and changes nothing the manager
\* keeps: the connection map, the state map, the objects with their timers,
\* the suspended calls and the provider snapshot
NothingTouched ==
    /\ inflight' = inflight
    /\ UNCHANGED <<connections, connectionStates, sobj, cobj, procs, ping, mcpProvider>>

\* C17: callTool and readResource on a name without a connection fail with
\* the unknown-server error and on a disabled Server record with the
\* disabled-server error; no request is sent, and the connection map, the
\* state map, the timers and the provider snapshot stay as they are.
C17_RefusedWithoutEffect ==
    [][\A n \in ServerNames : \A op \in {"callTool", "readResource"} :
          Called(op, n) =>
              /\ connections[n] = 0
                     => /\ outcome' = [op |-> op, name |-> n, result |-> "unknown"]
                        /\ NothingTouched
              /\ (connections[n] # 0 /\ cobj[connections[n]].disabled)
                     => /\ outcome' = [op |-> op, name |-> n, result |-> "disabled"]
                        /\ NothingTouched]_vars

\* readResource was refused for a server that is connected and whose
\* Server record is disabled
C17_DisabledRefused ==
    \E n \in ServerNames :
        /\ outcome = [op |-> "readResource", name |-> n, result |-> "disabled"]
        /\ connections[n] # 0
        /\ cobj[connections[n]].disabled
        /\ cobj[connections[n]].status = "connected"

\* A request of n fails with this step: it is rejected (an error of the
\* client, its timeout), or a tool result comes without content
Fails(op, n) ==
    IF op = "callTool" THEN ToolRejected(n) \/ ToolAnswered(n, FALSE)
    ELSE ResourceRejected(n)

\* The kind of request of a method
KindOf(op) == IF op = "callTool" THEN "tool" ELSE "resource"

\* The caller of op on n gets an error
ErrorToCaller(op, n) ==
    /\ outcome'.op = op
    /\ outcome'.name = n
    /\ outcome'.result \in {"rejected", "invalid"}

\* The failed request is gone and no other request takes its place
NotRetried(op, n) ==
    /\ inflight'[n][KindOf(op)] = inflight[n][KindOf(op)] - 1
    /\ \A m \in ServerNames : \A k \in {"tool", "resource"} :
          (m # n \/ k # KindOf(op)) => inflight'[m][k] = inflight[m][k]

\* Status, counters and timers of every ConnectionState and every Server
\* record are what they were
StatesUntouched ==
    UNCHANGED <<connections, connectionStates, sobj, cobj, procs, ping>>

\* C19: a failing callTool or readResource hands its error to the caller,
\* is not retried, and leaves the ConnectionState as it was: no ping
\* failure counted, no status changed, no timer armed or cleared.
C19_CallErrorsPropagate ==
    [][\A n \in ServerNames : \A op \in {"callTool", "readResource"} :
          Fails(op, n) => ErrorToCaller(op, n) /\ NotRetried(op, n) /\ StatesUntouched]_vars

\* A tool result without content was rejected while the server was
\* connected with its ping timer armed
C19_MalformedRejected ==
    \E n \in ServerNames :
        /\ outcome = [op |-> "callTool", name |-> n, result |-> "invalid"]
        /\ connectionStates[n] # 0
        /\ StateOf(n).status = "connected"
        /\ StateOf(n).pingInterval

\* The fields of a configuration, whatever their order
FieldsOf(cfg) == {cfg[i] : i \in 1..Len(cfg)}

\* The desired configuration has the fields and values of the stored one
StructurallyEqual(cfg, str) == FieldsOf(cfg) = FieldsOf(Parse(str))

\* After the step a reconciliation is tearing down the connection of n to
\* replace it
Replacing(n) ==
    \E i \in DOMAIN procs' :
        /\ procs'[i].kind = "reconcile"
        /\ procs'[i].phase = "upd"
        /\ procs'[i].lvl = "op"
        /\ procs'[i].name = n

\* C20: reconciliation compares the desired and the stored configuration
\* field by field: the same fields and values in another key order are
\* unchanged (no teardown, no re-initialization), a different value in any
\* field is a change.
C20_StructuralChangeDetection ==
    [][\A d \in ReorderedMaps : \A n \in DOMAIN d :
          (Reconcile(d) /\ connections[n] # 0)
              => (Replacing(n) <=> ~StructurallyEqual(d[n], cobj[connections[n]].config))]_vars

\* What the manager holds for server m: its registered connection with the
\* Server record, its registered ConnectionState, every state object of
\* its name with the timers armed on it, and its ping in flight
ConnectionOf(m) == IF connections[m] = 0 THEN NoConn ELSE cobj[connections[m]]

StateOfName(m) == IF connectionStates[m] = 0 THEN NoState ELSE sobj[connectionStates[m]]

TimersOf(m) == SelectSeq(sobj, LAMBDA o : o.name = m)

Footprint(m) == <<ConnectionOf(m), StateOfName(m), TimersOf(m), ping[m]>>

\* Call i is a restart, a deletion or a reconnect attempt, and takes a step
OwnCallSteps(i) ==
    /\ procs[i].kind \in {"restart", "delete", "timer"}
    /\ \/ DeleteTransportClosed(i) \/ DeleteClientClosed(i) \/ DeleteReturn(i)
       \/ InitStart(i) \/ InitBuildOk(i) \/ InitBuildFail(i)
       \/ ConnectOk(i) \/ FetchedCapabilities(i) \/ InitReturn(i)
       \/ InitThrew(i) \/ ReconnectFailed(i)

\* The step is a lifecycle event of server n: a connect failure, a
\* transport error or close, a ping or its failure, its reconnect timer,
\* a restart or a deletion with what they go on to do
EventOf(n) ==
    \/ Restart(n)
    \/ Delete(n)
    \/ PingFail(n)
    \/ \E i \in DOMAIN procs : procs[i].name = n /\ (ConnectFail(i) \/ OwnCallSteps(i))
    \/ \E c \in DOMAIN cobj :
          cobj[c].name = n /\ (TransportError(c) \/ TransportClosed(c) \/ TransportCloseEvent(c))
    \/ \E s \in DOMAIN sobj : sobj[s].name = n /\ (PingTick(s) \/ ReconnectTimerFire(s))

\* C18: a lifecycle event of one server (connect failure, transport error
\* or close, ping failure, reconnect timer firing, restart, deletion)
\* leaves the Connection, the Server record, the ConnectionState and the
\* timers of every other server unchanged.
C18_OthersUntouched ==
    [][\A n \in ServerNames : \A m \in ServerNames \ {n} :
          EventOf(n) => Footprint(m)' = Footprint(m)]_vars

\* Server "a" lost its connection and a reconnect attempt has been made,
\* while server "b" is connected with its ping timer armed
C18_OneDownOneUp ==
    /\ StateOfName("a").status \in {"disconnected", "connecting"}
    /\ StateOfName("a").reconnectAttempts > 0
    /\ ConnectionOf("b").status = "connected"
    /\ StateOfName("b").pingInterval

\* C22: whenever the ConnectionState of a server is 'connected', no
\* reconnect timer is pending for it, also when a transport error or close
\* was delivered during the handshake and the handshake succeeded then.
C22_ConnectedHasNoReconnectTimer ==
    \A n \in ServerNames :
        (connectionStates[n] # 0 /\ StateOf(n).status = "connected")
            => ~StateOf(n).reconnectTimeout

\* A reconciliation, a restart, a deletion or a reconnect attempt is at
\* work on n: a connection establishment may be in flight
Establishing(n) == \E i \in DOMAIN procs : procs[i].name = n

\* C25: when no connection establishment is in flight for a server, its
\* Server status is 'connected' if and only if its ConnectionState status
\* is 'connected'.
C25_StatusesAgree ==
    \A n \in ServerNames :
        (connections[n] # 0 /\ connectionStates[n] # 0 /\ ~Establishing(n))
            => (cobj[connections[n]].status = "connected"
                    <=> StateOf(n).status = "connected")

\* The runs of initializeConnection for n that have started and have not
\* resolved or thrown yet
Establishments(n) ==
    {i \in DOMAIN procs : /\ procs[i].name = n
                          /\ procs[i].lvl = "init"
                          /\ procs[i].pc \notin {"i_ret", "i_threw"}}

\* C28: at any time at most one run of initializeConnection is in progress
\* for a server name, whoever started it (reconnect timer, restart,
\* reconciliation).
C28_OneEstablishmentPerName ==
    \A n \in ServerNames : Cardinality(Establishments(n)) <= 1

\* The step delivers a disconnect trigger for server n: onerror or onclose
\* of one of its transports, the ping failure that reaches the threshold,
\* or a connection attempt that failed
DisconnectTrigger(n) ==
    \/ \E c \in DOMAIN cobj :
          cobj[c].name = n /\ (TransportError(c) \/ TransportClosed(c) \/ TransportCloseEvent(c))
    \/ /\ connectionStates[n] # 0
       /\ StateOf(n).consecutivePingFailures + 1 >= FailuresBeforeDisconnect
       /\ PingFail(n)
    \/ \E i \in DOMAIN procs :
          procs[i].name = n /\ (ConnectFail(i) \/ InitBuildFail(i) \/ ReconnectFailed(i))

\* The registered state of n has attempts left
BudgetLeft(n) ==
    connectionStates[n] # 0 /\ StateOf(n).reconnectAttempts < MAX_RECONNECT_ATTEMPTS

\* After the step n is disconnected, its ping timer is off and one reconnect
\* timer is pending for it: the one of its registered state
WaitingToReconnect(n) ==
    /\ connectionStates'[n] # 0
    /\ StateAfter(n).status = "disconnected"
    /\ ~StateAfter(n).pingInterval
    /\ StateAfter(n).reconnectTimeout
    /\ Cardinality({s \in DOMAIN sobj' : sobj'[s].name = n /\ sobj'[s].reconnectTimeout}) = 1

\* C24: each disconnect trigger on a server with retry budget left sets the
\* ConnectionState to 'disconnected', disarms the ping timer and leaves
\* exactly one pending reconnect timer, also when several triggers arrive
\* for the same outage.
C24_TriggerArmsOneTimer ==
    [][\A n \in ServerNames :
          (BudgetLeft(n) /\ DisconnectTrigger(n)) => WaitingToReconnect(n)]_vars

\* The step delivers a disconnect trigger to the registered connection of
\* n: onerror or onclose of its transport, or the ping failure that
\* reaches the threshold
TriggerOnRegistered(n) ==
    /\ connections[n] # 0
    /\ \/ \E c \in {connections[n]} :
             TransportError(c) \/ TransportClosed(c) \/ TransportCloseEvent(c)
       \/ /\ connectionStates[n] # 0
          /\ StateOf(n).consecutivePingFailures + 1 >= FailuresBeforeDisconnect
          /\ PingFail(n)

\* The error text of the Server record registered for n
ErrorText(n) == cobj[connections[n]].error

\* After the step the error text of n is the text before with one more
\* message at its end
MessageAppended(n) ==
    /\ connections'[n] # 0
    /\ \E t \in {cobj'[connections'[n]].error} :
          Len(t) = Len(ErrorText(n)) + 1 /\ SubSeq(t, 1, Len(t) - 1) = ErrorText(n)

\* C26: every disconnect trigger (transport error, transport close, ping
\* failure threshold) appends its message to the error text of the Server
\* record and keeps the earlier messages.
C26_ErrorsAccumulate ==
    [][\A n \in ServerNames : TriggerOnRegistered(n) => MessageAppended(n)]_vars

\* Call i gets the last of its three capability lists with this step and
\* runs lines 156-170
Establishes(i) == FetchedResourceTemplates(i) \/ FetchedCapabilities(i)

\* Call i is past the handshake and still fetching after this step
StillFetching(i) == ConnectOk(i) \/ FetchedTools(i) \/ FetchedResources(i)

\* After the step n is established: both statuses 'connected', the error
\* text empty, both counters 0, lastConnected set, one ping timer armed
EstablishedAfter(n) ==
    /\ connectionStates'[n] # 0
    /\ connections'[n] # 0
    /\ StateAfter(n).status = "connected"
    /\ StateAfter(n).reconnectAttempts = 0
    /\ StateAfter(n).consecutivePingFailures = 0
    /\ StateAfter(n).lastConnected
    /\ StateAfter(n).pingInterval
    /\ cobj'[connections'[n]].status = "connected"
    /\ cobj'[connections'[n]].error = <<>>
    /\ Cardinality(PingTimers(n))' = 1

\* C23: on handshake success initializeConnection leaves the server with
\* ConnectionState and Server status 'connected', empty error text, both
\* counters 0, lastConnected set and exactly one ping timer armed, and the
\* ping timer is armed only once the three capability fetches are in.
C23_EstablishedState ==
    [][\A i \in DOMAIN procs : \A n \in {procs[i].name} :
          /\ Establishes(i) => EstablishedAfter(n)
          /\ StillFetching(i) => Cardinality(PingTimers(n))' <= Cardinality(PingTimers(n))]_vars

\* The lists of run i that failed, the one failing in this step included
FailedLists(i) ==
    procs[i].failed \cup (IF FetchResourceTemplatesFailed(i) THEN {"resourceTemplates"} ELSE {})

\* What the Server record of n caches for a list after the step: [] for a
\* list that failed, what the server answered for the others
ListsAfter(n, i) ==
    \E c \in {connections'[n]} :
        /\ cobj'[c].tools = IF "tools" \in FailedLists(i) THEN "empty" ELSE procs[i].tools
        /\ cobj'[c].resources =
               IF "resources" \in FailedLists(i) THEN "empty" ELSE procs[i].resources
        /\ cobj'[c].resourceTemplates =
               IF "resourceTemplates" \in FailedLists(i) THEN "empty"
               ELSE procs[i].resourceTemplates

NoReconnectScheduled(n) == \A s \in DOMAIN sobj' : sobj'[s].name = n => ~sobj'[s].reconnectTimeout

C21_WarnedOncePerName == \A n \in ServerNames : warnings[n] <= 1

\* C27: after stop() has completed, the connection map and the state map
\* are empty and no ping or reconnect timer is active, whatever was in
\* flight when stop() was called (the initialization of the constructor,
\* a reconnect callback that had fired, a restartConnection).
C27_StoppedStaysEmpty ==
    stopped = "stopped" =>
        /\ \A n \in ServerNames : connections[n] = 0 /\ connectionStates[n] = 0
        /\ \A s \in DOMAIN sobj : ~sobj[s].pingInterval /\ ~sobj[s].reconnectTimeout

\* The server was connected and its registered state is now 'disconnected'
DisconnectedAfterConnected(n) ==
    /\ connectionStates[n] # 0
    /\ StateOf(n).status = "disconnected"
    /\ StateOf(n).lastConnected

\* The registered state of n is 'connected' and its ping timer is armed
ConnectedAndPinging(n) ==
    /\ connectionStates[n] # 0
    /\ StateOf(n).status = "connected"
    /\ StateOf(n).pingInterval

\* C29: after a connected server is disconnected (transport close or
\* error, or the ping-failure threshold) and the server accepts connections
\* again, the server is back to ConnectionState 'connected' with a ping
\* timer armed in the end, under fair firing of timers and completion of
\* handshakes and without any call of the host.
C29_ReconnectsInTheEnd == DisconnectedAfterConnected("a") ~> ConnectedAndPinging("a")

\* A stdio config without a command, or another config without a url
Misconfigured(cfg) ==
    IF Field(cfg, "type") = "stdio"
    THEN ~HasKey(cfg, "command") \/ Field(cfg, "command") = ""
    ELSE ~HasKey(cfg, "url") \/ Field(cfg, "url") = ""

\* Call i is at the transport builder and goes on
BuilderReturns(i) == InitBuildOk(i) \/ InitBuildFail(i)

\* After the step a call for n has thrown an error whose message names n
ThrewNaming(n) ==
    \E j \in DOMAIN procs' :
        /\ procs'[j].pc = "i_threw"
        /\ procs'[j].name = n
        /\ Len(procs'[j].err) = 2
        /\ procs'[j].err[2] = n

\* The transports (connection objects) of n, and the handshakes under way
TransportsOf(n) == {c \in DOMAIN cobj : cobj[c].name = n}
HandshakesOf(n) == {j \in DOMAIN procs : procs[j].name = n /\ procs[j].pc = "i_connect"}

\* The step stores no Connection entry for n: the entry is missing after
\* it, or it is the entry another call had stored before
StoresNoEntry(n) ==
    connections'[n] # 0 =>
        /\ connections[n] # 0
        /\ cobj'[connections'[n]] = cobj[connections[n]]

C32_MapsHoldSameNames ==
    Quiet =>
        \A n \in ServerNames :
            /\ connections[n] # 0 <=> connectionStates[n] # 0
            /\ connections[n] = 0 =>
                   \A s \in DOMAIN sobj :
                       sobj[s].name = n => ~sobj[s].pingInterval /\ ~sobj[s].reconnectTimeout

\* C33: a ping timer is active for a server only while its ConnectionState
\* status is 'connected': the state registered under the name has no ping
\* timer while it is 'connecting' or 'disconnected', whatever connection
\* attempts for the name interleave.
C33_PingOnlyWhileConnected ==
    \A n \in ServerNames :
        (connectionStates[n] # 0 /\ StateOf(n).pingInterval) => StateOf(n).status = "connected"

\* The counters of every ConnectionState object, registered or not
PingFailuresBounded ==
    \A s \in DOMAIN sobj :
        0 <= sobj[s].consecutivePingFailures
        /\ sobj[s].consecutivePingFailures <= FailuresBeforeDisconnect

ReconnectAttemptsBounded ==
    \A s \in DOMAIN sobj :
        0 <= sobj[s].reconnectAttempts /\ sobj[s].reconnectAttempts <= MAX_RECONNECT_ATTEMPTS

\* C34: in every reachable state, for every server,
\* 0 <= consecutivePingFailures <= failuresBeforeDisconnect and
\* 0 <= reconnectAttempts <= MAX_RECONNECT_ATTEMPTS.
C34_CountersBounded == PingFailuresBounded /\ ReconnectAttemptsBounded

\* C16: restartConnection on a server with a stored connection cancels the
\* pending reconnect timer with its teardown, starts a new attempt with
\* reconnectAttempts = 0 and consecutivePingFailures = 0 right after it, and
\* when the handshake is accepted the server is 'connected' as the call
\* resolves.
C16_RestartRecovers ==
    [][\A i \in DOMAIN procs :
          /\ RestartTornDown(i) => NothingLeft(procs[i].name)
          /\ RestartAttempts(i) => FreshState(procs[i].name)
          /\ RestartResolves(i) => \A n \in {procs[i].name} : ConnectedWithLists(n)']_vars

====
